---- MODULE Spec2Model ----
(***************************************************************************)
(* Session hub of the chess game: the WebSocket game server in its two     *)
(* variants.                                                               *)
(*   hub = "direct"      src/server/game-server.js        (create / join   *)
(*                       with a preferred colour, no queue)                *)
(*   hub = "matchmaking" src/app/hooks/useChessWebSocket.ts, lines 77-569  *)
(*                       (queue, cancel_queue, list_games, link rooms)     *)
(* Every action is one run of a message handler or of the close handler on *)
(* Node's single event loop.  Strings of the program are strings here,     *)
(* except positions (FEN), which are sequences of pieces of text so that   *)
(* the side to move is computed by splitting at the spaces, as the code    *)
(* does.  Display names are passed through by the code untouched and are   *)
(* left out.                                                               *)
(***************************************************************************)
EXTENDS Integers, Sequences, FiniteSets, TLC

\* ------------------------------------------------------------------ bounds
\* connections accepted, identifiers a room can get, handler runs explored
NConns == 3
NGames == 2
MaxSteps == 5
\* connections of the runs that exercise only the matchmaking queue
NQueuers == 4
MaxSockets == 7

Conns == 1..NConns
\* the identifiers createGameId can return (or a create message can carry)
GameIds == << "g1", "g2", "g3", "g4", "g5", "g6" >>
IdPool == {GameIds[i] : i \in 1..NGames}

\* ------------------------------------------------------------- JS values
Undef == "undefined"
NoConn == 0
Colors == {"white", "black"}
Other(color) == IF color = "white" THEN "black" ELSE "white"

\* const START_FEN.  A string is the sequence of its space characters and of
\* the runs of other characters between them, which is all split(" ") reads
START_FEN == << "rnbqkbnr/pppppppp/8/8/8/8/PPPPPPPP/RNBQKBNR", " ", "w", " ",
                "KQkq", " ", "-", " ", "0", " ", "1" >>

\* Positions a client may submit in move.FEN.  The empty string stands for
\* every falsy FEN (missing or ""): the handler only tests !moveData.FEN.
FenBlackToMove == << "8/8", " ", "b" >>
FenWhiteToMove == << "8/8", " ", "w" >>
NoFen == << >>
MoveFens == {FenBlackToMove, FenWhiteToMove, NoFen}

Prefs == {"white", "black", Undef}
Results == {"mat", "draw"}

\* String.prototype.split(" ")
RECURSIVE SplitAcc(_, _, _)
SplitAcc(s, cur, acc) ==
  IF s = << >> THEN Append(acc, cur)
  ELSE IF Head(s) = " " THEN SplitAcc(Tail(s), << >>, Append(acc, cur))
  ELSE SplitAcc(Tail(s), Append(cur, Head(s)), acc)

Split(s) == SplitAcc(s, << >>, << >>)

getActiveColorFromFEN(fen) ==
  LET parts == Split(fen)
  IN IF Len(parts) >= 2 /\ parts[2] = << "b" >> THEN "black" ELSE "white"

NormalizeToWhite(preferred) == "white"

\* function normalizeColor
normalizeColor(preferred) == IF preferred = "black" THEN "black" ELSE "white"

\* ------------------------------------------------------------------ state
VARIABLES
  hub,      \* which server file is running
  crashed,  \* an exception left a message handler (uncaught: the process dies)
  conn,     \* conn[c]: "new" (no transport yet), "open", "closed"
  client,   \* client[c]: the per-connection `client` object of the closure
  games,    \* the Map `games`: a function whose domain is the set of ids
  queue,    \* matchmakingQueue: sequence of entries (socket = clientId)
  movers,   \* history: per room and record of game.moves, the sender, its
            \* client.color and whether it held that seat when it was accepted
  steps,    \* number of handler runs so far (bounded by MaxSteps)
  last,     \* the kind and the sender of the message handled by the last step
  out,      \* the events socket.send wrote during the last step, in order
  ws,       \* the browser's WebSocketService instance (services/websocket.ts)
  browser   \* what the browser holds for it: the WebSocket objects it made,
            \* the pending setTimeout callbacks, and a record of the last
            \* routed message and of the closes since the last open

vars == << hub, crashed, conn, client, games, queue, movers, steps, last, out,
           ws, browser >>

\* private socket = null; state = "closed"; messageListeners = new Map();
\* reconnectAttempts = 0.  socket is the number of the WebSocket object held,
\* messageListeners the set of << key, listener >> pairs
NoSocket == 0
NewService ==
  [socket |-> NoSocket, state |-> "closed", reconnectAttempts |-> 0,
   messageListeners |-> {}]

\* sockets[s]: readyState of the s-th WebSocket object made; timers: number
\* of setTimeout callbacks not yet run; message, invoked: the last message
\* routed and the listeners it was handed to; closes: close events since the
\* last open event
NewBrowser ==
  [sockets |-> << >>, timers |-> 0, message |-> [type |-> "none"],
   invoked |-> {}, closes |-> 0]

NewClient == [gameId |-> Undef, color |-> Undef, viewer |-> Undef,
              inQueue |-> FALSE, tempSlot |-> FALSE]

\* A seat holds a copy of the client object, of which the fields id (the
\* socket is the same connection), viewer and tempSlot are kept; an absent or
\* false tempSlot is FALSE
EmptySeat == [id |-> NoConn, viewer |-> Undef, tempSlot |-> FALSE]

NewGame(gameId, status) ==
  [id |-> gameId, fen |-> START_FEN, status |-> status,
   players |-> [white |-> EmptySeat, black |-> EmptySeat],
   watchers |-> << >>, moves |-> << >>, result |-> Undef]

NoMsg == [op |-> "none", by |-> NoConn]

\* the entry the queue handler pushes; Date.now() is read off the count of
\* handler runs, which grows with every message
QueueEntry(c, now) == [clientId |-> c, timestamp |-> now]

Msg(op, c) == [op |-> op, by |-> c]

Occupied(game, color) == game.players[color].id # NoConn

Range(s) == {s[i] : i \in 1..Len(s)}

\* Map.set
MapSet(map, key, value) ==
  [k \in DOMAIN map \cup {key} |-> IF k = key THEN value ELSE map[k]]

\* Set.add / Set.delete on an insertion-ordered Set
SetAdd(s, x) == IF x \in Range(s) THEN s ELSE Append(s, x)
SetDelete(s, x) == SelectSeq(s, LAMBDA y : y # x)

\* ------------------------------------------------------------ sending
SendUnchecked(cn, socket, payload) == << [to |-> socket, ev |-> payload] >>

\* safeSend: the payload is written only to a socket whose readyState is OPEN
safeSend(cn, socket, payload) ==
  IF cn[socket] = "open" THEN << [to |-> socket, ev |-> payload] >> ELSE << >>

buildPlayers(game) ==
  << [color |-> "white", connected |-> Occupied(game, "white")],
     [color |-> "black", connected |-> Occupied(game, "black")] >>

BroadcastToEverySocket(game) == [i \in 1..NConns |-> i]

\* [game.players.white?.socket, game.players.black?.socket, ...game.watchers]
\* .filter(Boolean)
broadcastSockets(game) ==
  SelectSeq(<< game.players.white.id, game.players.black.id >> \o game.watchers,
            LAMBDA s : s # NoConn)

RECURSIVE SendEach(_, _, _, _)
SendEach(cn, sockets, payload, exclude) ==
  IF sockets = << >> THEN << >>
  ELSE (IF Head(sockets) # exclude
          THEN safeSend(cn, Head(sockets), payload) ELSE << >>)
       \o SendEach(cn, Tail(sockets), payload, exclude)

BroadcastReordered(cn, game, payload, exclude) ==
  LET sockets == broadcastSockets(game)
      echo == [type |-> "player_left", gameId |-> game.id]
  IN IF sockets = << >> THEN << >>
     ELSE SendEach(cn, << Head(sockets) >>, payload, exclude)
          \o SendEach(cn, << Head(sockets) >>, echo, exclude)
          \o SendEach(cn, Tail(sockets), echo, exclude)
          \o SendEach(cn, Tail(sockets), payload, exclude)

broadcast(cn, game, payload, exclude) ==
  SendEach(cn, broadcastSockets(game), payload, exclude)

ErrorEv(message) == [type |-> "error", message |-> message]

\* ------------------------------------------------------------ initial state
InitCommon ==
  /\ crashed = FALSE
  /\ conn = [c \in Conns |-> "new"]
  /\ steps = 0
  /\ client = [c \in Conns |-> NewClient]
  /\ games = << >>
  /\ queue = << >>
  /\ movers = << >>
  /\ last = NoMsg
  /\ out = << >>
  /\ ws = NewService
  /\ browser = NewBrowser

InitDirect == hub = "direct" /\ InitCommon
InitMatch == hub = "matchmaking" /\ InitCommon
Init == InitDirect \/ InitMatch

Step == steps < MaxSteps /\ steps' = steps + 1

Live(c) == ~crashed /\ conn[c] = "open" /\ Step

\* wss.on("connection"): identities are fresh, so connections are numbered in
\* the order they arrive
Connect(c) ==
  /\ ~crashed
  /\ conn[c] = "new"
  /\ \A d \in Conns : d < c => conn[d] # "new"
  /\ conn' = [conn EXCEPT ![c] = "open"]
  /\ client' = [client EXCEPT ![c] = NewClient]
  /\ last' = Msg("connect", c)
  /\ out' = << >>
  /\ UNCHANGED << ws, browser, hub, crashed, games, queue, movers, steps >>

\* ------------------------------------------- handlers common to both hubs
StatusWaiting(game) == "waiting"

\* game.players.white && game.players.black ? "active" : "waiting"
StatusOfSeats(game) ==
  IF Occupied(game, "white") /\ Occupied(game, "black") THEN "active"
  ELSE "waiting"

\* removeClientFromGame, the part that changes the room
VacateSeat(game, c) ==
  IF game.players.white.id = c
    THEN [game EXCEPT !.players.white = EmptySeat]
  ELSE IF game.players.black.id = c
    THEN [game EXCEPT !.players.black = EmptySeat]
  ELSE [game EXCEPT !.watchers = SetDelete(game.watchers, c)]

LeftGame(game, c) ==
  LET g == VacateSeat(game, c) IN [g EXCEPT !.status = StatusOfSeats(g)]

PlayerLeftEv(game) ==
  [type |-> "player_left", gameId |-> game.id,
   players |-> buildPlayers(game), status |-> game.status]

\* removeClientFromGame(client), run by the close handler; cn is the
\* readyState of every socket while it runs
removeClientFromGame(c, cn) ==
  LET gid == client[c].gameId IN
  IF gid = Undef \/ gid \notin DOMAIN games
    THEN /\ games' = games
         /\ out' = << >>
    ELSE LET g == LeftGame(games[gid], c) IN
         /\ games' = [games EXCEPT ![gid] = g]
         /\ out' = broadcast(cn, g, PlayerLeftEv(g), NoConn)

\* parsed.type === "end"
EndedEv(game, result) ==
  [type |-> "ended", gameId |-> game.id, result |-> result, fen |-> game.fen]

EndedGame(game, result) ==
  [game EXCEPT !.status = "ended", !.result = result]

EndHandler(c, result) ==
  /\ Live(c)
  /\ last' = Msg("end", c)
  /\ LET gid == client[c].gameId IN
     IF gid = Undef
       THEN /\ out' = safeSend(conn, c, ErrorEv("Not in a game"))
            /\ games' = games
     ELSE IF gid \notin DOMAIN games
       THEN /\ out' = << >>
            /\ games' = games
     ELSE LET g == EndedGame(games[gid], result) IN
          /\ games' = [games EXCEPT ![gid] = g]
          /\ out' = broadcast(conn, g, EndedEv(g, result), NoConn)
  /\ UNCHANGED << ws, browser, hub, crashed, conn, client, queue, movers >>

\* isMoveMessage(parsed) holds: type "move", a string gameId, a truthy move
MoveEv(game, fen, by) ==
  [type |-> "move", gameId |-> game.id, move |-> [FEN |-> fen],
   fen |-> game.fen, nextToMove |-> getActiveColorFromFEN(game.fen),
   by |-> by]

MoveError(c) ==
  LET cl == client[c] IN
  IF cl.gameId = Undef \/ cl.color = Undef THEN "Join a game first"
  ELSE IF cl.gameId \notin DOMAIN games THEN "Game not found"
  ELSE "none"

TurnMatches(game, color) == getActiveColorFromFEN(game.fen) = color

MovedGameKeepsFen(game, fen) ==
  [game EXCEPT !.moves = Append(game.moves, [FEN |-> fen])]

\* game.fen = moveData.FEN; game.moves.push(moveData)
MovedGame(game, fen) ==
  [game EXCEPT !.fen = fen, !.moves = Append(game.moves, [FEN |-> fen])]

MoveHandler(c, gameId, fen) ==
  /\ Live(c)
  /\ last' = Msg("move", c)
  /\ IF MoveError(c) # "none"
       THEN /\ out' = safeSend(conn, c, ErrorEv(MoveError(c)))
            /\ UNCHANGED << games, movers >>
     ELSE LET gid == client[c].gameId
              game == games[gid]
          IN
          /\ IF ~TurnMatches(game, client[c].color)
               THEN /\ out' = safeSend(conn, c, ErrorEv("Not your turn"))
                    /\ UNCHANGED << games, movers >>
             ELSE IF fen = NoFen
               THEN /\ out' = safeSend(conn, c, ErrorEv("Move is missing FEN"))
                    /\ UNCHANGED << games, movers >>
             ELSE LET g == MovedGame(game, fen) IN
                  /\ games' = [games EXCEPT ![gid] = g]
                  /\ movers' = [movers EXCEPT ![gid] =
                       Append(@, [id |-> c, color |-> client[c].color,
                                  seat |-> game.players[client[c].color].id = c])]
                  /\ out' = broadcast(conn, g, MoveEv(g, fen, client[c].color),
                                      NoConn)
  /\ UNCHANGED << ws, browser, hub, crashed, conn, client, queue >>

\* JSON.parse throws: "Bad JSON payload"; a parsed value with no recognised
\* type (an object, a number, a string, a move without a string gameId or
\* without a move): "Unknown message type"
BadJsonHandler(c) ==
  /\ Live(c)
  /\ last' = Msg("badjson", c)
  /\ out' = safeSend(conn, c, ErrorEv("Bad JSON payload"))
  /\ UNCHANGED << ws, browser, hub, crashed, conn, client, games, queue, movers >>

UnknownTypeDetaches(c) ==
  /\ Live(c)
  /\ last' = Msg("unknown", c)
  /\ out' = safeSend(conn, c, ErrorEv("Unknown message type"))
  /\ client' = [client EXCEPT ![c].gameId = Undef]
  /\ UNCHANGED << ws, browser, hub, crashed, conn, games, queue, movers >>

UnknownTypeHandler(c) ==
  /\ Live(c)
  /\ last' = Msg("unknown", c)
  /\ out' = safeSend(conn, c, ErrorEv("Unknown message type"))
  /\ UNCHANGED << ws, browser, hub, crashed, conn, client, games, queue, movers >>

PingHandler(c) ==
  /\ Live(c)
  /\ last' = Msg("ping", c)
  /\ out' = safeSend(conn, c, [type |-> "pong"])
  /\ UNCHANGED << ws, browser, hub, crashed, conn, client, games, queue, movers >>

\* JSON.parse("null") is null, and parsed.type throws a TypeError that
\* nothing in the handler catches: the handler is left before anything is
\* sent.  What the exception does next is outside this code: the process
\* dies, or the exception is swallowed and the server goes on
NullPayloadHandler(c) ==
  /\ Live(c)
  /\ last' = Msg("null", c)
  /\ out' = << >>
  /\ crashed' \in BOOLEAN
  /\ UNCHANGED << ws, browser, hub, conn, client, games, queue, movers >>

\* --------------------------------------------- src/server/game-server.js
SessionEv(game, color, viewer) ==
  [type |-> "session", gameId |-> game.id, color |-> color, viewer |-> viewer,
   fen |-> game.fen, status |-> game.status, players |-> buildPlayers(game),
   result |-> game.result]

PlayerJoinedEv(game) ==
  [type |-> "player_joined", gameId |-> game.id,
   players |-> buildPlayers(game), status |-> game.status]

\* { ...client }
Copy(c, cl) == [id |-> c, viewer |-> cl.viewer, tempSlot |-> cl.tempSlot]

CreateOverwrites(c, gameId, pref) ==
  /\ hub = "direct"
  /\ Live(c)
  /\ last' = Msg("create", c)
  /\ LET color == normalizeColor(pref)
         g == [NewGame(gameId, "waiting") EXCEPT
                 !.players[color] = Copy(c, client[c])]
     IN
     /\ client' = [client EXCEPT ![c].color = color, ![c].gameId = gameId]
     /\ games' = MapSet(games, gameId, g)
     /\ movers' = MapSet(movers, gameId, << >>)
     /\ out' = safeSend(conn, c,
                 [SessionEv(g, color, Undef) EXCEPT !.result = Undef])
  /\ UNCHANGED << ws, browser, hub, crashed, conn, queue >>

\* parsed.type === "create"
CreateD(c, gameId, pref) ==
  /\ hub = "direct"
  /\ Live(c)
  /\ last' = Msg("create", c)
  /\ LET color == normalizeColor(pref) IN
     IF gameId \in DOMAIN games
       THEN /\ out' = safeSend(conn, c, ErrorEv("Game already exists"))
            /\ UNCHANGED << client, games, movers >>
       ELSE LET g == [NewGame(gameId, "waiting") EXCEPT
                        !.players[color] = Copy(c, client[c])]
            IN
            /\ client' = [client EXCEPT ![c].color = color,
                                         ![c].gameId = gameId]
            /\ games' = MapSet(games, gameId, g)
            /\ movers' = MapSet(movers, gameId, << >>)
            /\ out' = safeSend(conn, c,
                        [SessionEv(g, color, Undef) EXCEPT !.result = Undef])
  /\ UNCHANGED << ws, browser, hub, crashed, conn, queue >>

AssignedPreferredOnly(game, pref) ==
  IF ~Occupied(game, normalizeColor(pref)) THEN normalizeColor(pref) ELSE Undef

\* the seat the join handler picks, Undef when both are taken
AssignedColorD(game, pref) ==
  LET preferredColor == normalizeColor(pref) IN
  IF ~Occupied(game, preferredColor) THEN preferredColor
  ELSE IF ~Occupied(game, "white") THEN "white"
  ELSE IF ~Occupied(game, "black") THEN "black"
  ELSE Undef

JoinD(c, gameId, pref) ==
  /\ hub = "direct"
  /\ Live(c)
  /\ last' = Msg("join", c)
  /\ IF gameId \notin DOMAIN games
       THEN /\ out' = safeSend(conn, c, ErrorEv("Game not found"))
            /\ UNCHANGED << client, games >>
       ELSE LET game == games[gameId]
                assignedColor == AssignedColorD(game, pref)
                cl == IF assignedColor # Undef
                        THEN [client[c] EXCEPT !.gameId = gameId,
                                !.color = assignedColor, !.viewer = "false"]
                        ELSE [client[c] EXCEPT !.gameId = gameId,
                                !.viewer = "true"]
                seated == [game EXCEPT !.players[assignedColor] = Copy(c, cl)]
                g == IF assignedColor # Undef
                       THEN [seated EXCEPT !.status = StatusOfSeats(seated)]
                       ELSE [game EXCEPT !.watchers = SetAdd(game.watchers, c)]
            IN
            /\ client' = [client EXCEPT ![c] = cl]
            /\ games' = [games EXCEPT ![gameId] = g]
            /\ out' = safeSend(conn, c, SessionEv(g, cl.color, cl.viewer))
                      \o broadcast(conn, g, PlayerJoinedEv(g), c)
  /\ UNCHANGED << ws, browser, hub, crashed, conn, queue, movers >>

EndD(c, result) == hub = "direct" /\ EndHandler(c, result)
MoveD(c, gameId, fen) == hub = "direct" /\ MoveHandler(c, gameId, fen)
BadJsonD(c) == hub = "direct" /\ BadJsonHandler(c)
UnknownTypeD(c) == hub = "direct" /\ UnknownTypeHandler(c)
PingD(c) == hub = "direct" /\ PingHandler(c)
NullPayloadD(c) == hub = "direct" /\ NullPayloadHandler(c)

\* socket.on("close")
CloseD(c) ==
  /\ hub = "direct"
  /\ Live(c)
  /\ conn' = [conn EXCEPT ![c] = "closed"]
  /\ last' = Msg("close", c)
  /\ removeClientFromGame(c, conn')
  /\ UNCHANGED << ws, browser, hub, crashed, client, queue, movers >>

NextD ==
  \/ \E c \in Conns : hub = "direct" /\ Connect(c)
  \/ \E c \in Conns, g \in IdPool, p \in Prefs : CreateD(c, g, p)
  \/ \E c \in Conns, g \in IdPool, p \in Prefs : JoinD(c, g, p)
  \/ \E c \in Conns, r \in Results : EndD(c, r)
  \/ \E c \in Conns, g \in IdPool, f \in MoveFens : MoveD(c, g, f)
  \/ \E c \in Conns : BadJsonD(c)
  \/ \E c \in Conns : UnknownTypeD(c)
  \/ \E c \in Conns : PingD(c)
  \/ \E c \in Conns : NullPayloadD(c)
  \/ \E c \in Conns : CloseD(c)

SpecD == InitDirect /\ [][NextD]_vars

\* the direct-join hub when connections send only create and join messages
\* and none disconnects
NextJoins ==
  \/ \E c \in Conns : hub = "direct" /\ Connect(c)
  \/ \E c \in Conns, g \in IdPool, p \in Prefs : CreateD(c, g, p)
  \/ \E c \in Conns, g \in IdPool, p \in Prefs : JoinD(c, g, p)

SpecJoins == InitDirect /\ [][NextJoins]_vars

\* --------------------------- src/app/hooks/useChessWebSocket.ts, 77-569
\* one entry of games_list
GameSummary(game) ==
  [id |-> game.id, status |-> game.status, fen |-> game.fen,
   players |-> buildPlayers(game), watcherCount |-> Len(game.watchers),
   moveCount |-> Len(game.moves)]

\* Array.from(games.values()).filter(...).map(...): one pass over the rooms
\* of the Map.  The rooms are visited in the order of GameIds, which stands
\* for the Map's insertion order
RECURSIVE ListFrom(_, _, _)
ListFrom(map, i, listed) ==
  IF i > Len(GameIds) THEN << >>
  ELSE (IF GameIds[i] \in DOMAIN map /\ listed[map[GameIds[i]].status]
          THEN << GameSummary(map[GameIds[i]]) >> ELSE << >>)
       \o ListFrom(map, i + 1, listed)

GamesListOfAll(map) ==
  ListFrom(map, 1, [st \in {"waiting", "active", "ended"} |-> TRUE])

GamesList(map) ==
  ListFrom(map, 1, [st \in {"waiting", "active", "ended"} |-> st = "active"])

GamesListEv(map) == [type |-> "games_list", games |-> GamesList(map)]

\* wss.clients.forEach: the sockets of the server in the order they connected
RECURSIVE SendAll(_, _, _)
SendAll(cn, c, payload) ==
  IF c \notin DOMAIN cn THEN << >>
  ELSE safeSend(cn, c, payload) \o SendAll(cn, c + 1, payload)

NoGamesListBroadcast(cn, map) == << >>

broadcastGamesList(cn, map) == SendAll(cn, 1, GamesListEv(map))

MatchedEv(game, color) ==
  [type |-> "matched", gameId |-> game.id, color |-> color,
   fen |-> START_FEN, status |-> "active", players |-> buildPlayers(game),
   colorRevealed |-> TRUE]

QueueBack(q) == q[Len(q)]

\* what matchmakingQueue.shift() returns
QueueFront(q) == q[1]

\* the room made for player1 and player2, the two oldest queue entries
MatchedGame(gameId, player1, player2, p1Color) ==
  [NewGame(gameId, "active") EXCEPT
     !.players[p1Color] =
        [id |-> player1, viewer |-> Undef, tempSlot |-> FALSE],
     !.players[Other(p1Color)] =
        [id |-> player2, viewer |-> Undef, tempSlot |-> FALSE]]

\* parsed.type === "queue"; gameId is what createGameId returns and p1Color
\* what randomColor returns, both used only when a pair is made
PositionOne(pushed) == 1

\* position: matchmakingQueue.length, read after the push
QueuePosition(pushed) == Len(pushed)

\* parsed.type === "queue"
QueueM(c, gameId, p1Color) ==
  /\ hub = "matchmaking"
  /\ Live(c)
  /\ last' = Msg("queue", c)
  /\ client' = [client EXCEPT ![c].inQueue = TRUE, ![c].gameId = Undef]
  /\ LET pushed == Append(queue, QueueEntry(c, steps'))
         status == safeSend(conn, c, [type |-> "queue_status",
                                      position |-> QueuePosition(pushed),
                                      waiting |-> TRUE])
     IN
     IF Len(pushed) >= 2
       THEN LET player1 == QueueFront(pushed).clientId
                player2 == QueueFront(Tail(pushed)).clientId
                g == MatchedGame(gameId, player1, player2, p1Color)
                map == MapSet(games, gameId, g)
            IN
            /\ queue' = Tail(Tail(pushed))
            /\ games' = map
            /\ movers' = MapSet(movers, gameId, << >>)
            /\ out' = status
                      \o safeSend(conn, player1, MatchedEv(g, p1Color))
                      \o safeSend(conn, player2, MatchedEv(g, Other(p1Color)))
                      \o broadcastGamesList(conn, map)
       ELSE /\ queue' = pushed
            /\ out' = status
            /\ UNCHANGED << games, movers >>
  /\ UNCHANGED << ws, browser, hub, crashed, conn >>

\* matchmakingQueue.findIndex(e => e.clientId === client.id), 0 for -1
RECURSIVE FindIndexFrom(_, _, _)
FindIndexFrom(q, c, i) ==
  IF i > Len(q) THEN 0
  ELSE IF q[i].clientId = c THEN i
  ELSE FindIndexFrom(q, c, i + 1)

FindIndex(q, c) == FindIndexFrom(q, c, 1)

SpliceNothing(q, index) == q

\* matchmakingQueue.splice(index, 1)
Splice(q, index) == SubSeq(q, 1, index - 1) \o SubSeq(q, index + 1, Len(q))

CancelQueueM(c) ==
  /\ hub = "matchmaking"
  /\ Live(c)
  /\ last' = Msg("cancel_queue", c)
  /\ LET index == FindIndex(queue, c) IN
     IF index # 0
       THEN /\ queue' = Splice(queue, index)
            /\ client' = [client EXCEPT ![c].inQueue = FALSE]
       ELSE UNCHANGED << queue, client >>
  /\ out' = safeSend(conn, c, [type |-> "queue_cancelled"])
  /\ UNCHANGED << ws, browser, hub, crashed, conn, games, movers >>

ListGamesM(c) ==
  /\ hub = "matchmaking"
  /\ Live(c)
  /\ last' = Msg("list_games", c)
  /\ out' = safeSend(conn, c, GamesListEv(games))
  /\ UNCHANGED << ws, browser, hub, crashed, conn, client, games, queue, movers >>

\* parsed.type === "create"; gameId is what createGameId returns
CreateM(c, gameId) ==
  /\ hub = "matchmaking"
  /\ Live(c)
  /\ last' = Msg("create", c)
  /\ IF gameId \in DOMAIN games
       THEN /\ out' = safeSend(conn, c, ErrorEv("Game already exists"))
            /\ UNCHANGED << client, games, movers >>
       ELSE LET g == NewGame(gameId, "waiting") IN
            /\ client' = [client EXCEPT ![c].gameId = gameId,
                                         ![c].tempSlot = TRUE]
            /\ games' = MapSet(games, gameId, g)
            /\ movers' = MapSet(movers, gameId, << >>)
            /\ out' = safeSend(conn, c,
                        [type |-> "session", gameId |-> gameId,
                         fen |-> g.fen, status |-> g.status,
                         players |-> buildPlayers(g),
                         colorRevealed |-> FALSE])
  /\ UNCHANGED << ws, browser, hub, crashed, conn, queue >>

EmptySlots(game) ==
  (IF ~Occupied(game, "white") THEN << "white" >> ELSE << >>)
  \o (IF ~Occupied(game, "black") THEN << "black" >> ELSE << >>)

\* Object.values(game.players).find(p => p && p.tempSlot): the colour of the
\* seat found, Undef when there is none
FirstPlayerSeat(game) ==
  IF Occupied(game, "white") /\ game.players.white.tempSlot THEN "white"
  ELSE IF Occupied(game, "black") /\ game.players.black.tempSlot THEN "black"
  ELSE Undef

\* the join handler's branch for one empty seat: the joiner takes it, and a
\* seat object flagged tempSlot is also written to the other seat
SecondPlayerJoined(game, c, cl) ==
  LET assignedColor == EmptySlots(game)[1]
      seated == [game EXCEPT !.players[assignedColor] = Copy(c, cl)]
      found == FirstPlayerSeat(seated)
      moved == IF found = Undef THEN seated
               ELSE LET firstPlayer == [seated.players[found] EXCEPT
                                          !.tempSlot = FALSE]
                    IN [seated EXCEPT !.players[found] = firstPlayer,
                          !.players[Other(assignedColor)] = firstPlayer]
  IN [moved EXCEPT !.status = "active"]

JoinedEvM(type, game) ==
  [type |-> type, gameId |-> game.id, players |-> buildPlayers(game),
   status |-> game.status, colorRevealed |-> game.status = "active"]

JoinM(c, gameId) ==
  /\ hub = "matchmaking"
  /\ Live(c)
  /\ last' = Msg("join", c)
  /\ IF gameId \notin DOMAIN games
       THEN /\ out' = safeSend(conn, c, ErrorEv("Game not found"))
            /\ UNCHANGED << client, games >>
       ELSE LET game == games[gameId]
                n == Len(EmptySlots(game))
                cl == IF n = 2
                        THEN [client[c] EXCEPT !.gameId = gameId,
                                !.viewer = "false", !.tempSlot = TRUE]
                      ELSE IF n = 1
                        THEN [client[c] EXCEPT !.gameId = gameId,
                                !.color = EmptySlots(game)[1],
                                !.viewer = "false"]
                      ELSE [client[c] EXCEPT !.gameId = gameId,
                              !.viewer = "true"]
                g == IF n = 2 THEN game
                     ELSE IF n = 1
                       THEN SecondPlayerJoined(game, c, cl)
                     ELSE [game EXCEPT !.watchers = SetAdd(game.watchers, c)]
            IN
            /\ client' = [client EXCEPT ![c] = cl]
            /\ games' = [games EXCEPT ![gameId] = g]
            /\ out' = safeSend(conn, c,
                        [type |-> "session", gameId |-> g.id,
                         color |-> cl.color, viewer |-> cl.viewer,
                         fen |-> g.fen, status |-> g.status,
                         players |-> buildPlayers(g), result |-> g.result,
                         colorRevealed |-> g.status = "active"])
                      \o broadcast(conn, g, JoinedEvM("player_joined", g), c)
  /\ UNCHANGED << ws, browser, hub, crashed, conn, queue, movers >>

EndM(c, result) == hub = "matchmaking" /\ EndHandler(c, result)
MoveM(c, gameId, fen) == hub = "matchmaking" /\ MoveHandler(c, gameId, fen)
BadJsonM(c) == hub = "matchmaking" /\ BadJsonHandler(c)
UnknownTypeM(c) == hub = "matchmaking" /\ UnknownTypeHandler(c)
PingM(c) == hub = "matchmaking" /\ PingHandler(c)
NullPayloadM(c) == hub = "matchmaking" /\ NullPayloadHandler(c)

QueueKeptOnClose(q, c) == q

\* the queue after the close handler
QueueAfterClose(q, c) ==
  IF client[c].inQueue /\ FindIndex(q, c) # 0
    THEN Splice(q, FindIndex(q, c)) ELSE q

\* socket.on("close")
CloseM(c) ==
  /\ hub = "matchmaking"
  /\ Live(c)
  /\ conn' = [conn EXCEPT ![c] = "closed"]
  /\ last' = Msg("close", c)
  /\ queue' = QueueAfterClose(queue, c)
  /\ removeClientFromGame(c, conn')
  /\ UNCHANGED << ws, browser, hub, crashed, client, movers >>

NextM ==
  \/ \E c \in Conns : hub = "matchmaking" /\ Connect(c)
  \/ \E c \in Conns, g \in IdPool, p \in Colors : QueueM(c, g, p)
  \/ \E c \in Conns : CancelQueueM(c)
  \/ \E c \in Conns : ListGamesM(c)
  \/ \E c \in Conns, g \in IdPool : CreateM(c, g)
  \/ \E c \in Conns, g \in IdPool : JoinM(c, g)
  \/ \E c \in Conns, r \in Results : EndM(c, r)
  \/ \E c \in Conns, g \in IdPool, f \in MoveFens : MoveM(c, g, f)
  \/ \E c \in Conns : BadJsonM(c)
  \/ \E c \in Conns : UnknownTypeM(c)
  \/ \E c \in Conns : PingM(c)
  \/ \E c \in Conns : NullPayloadM(c)
  \/ \E c \in Conns : CloseM(c)

SpecM == InitMatch /\ [][NextM]_vars

Next == NextD \/ NextM
Spec == Init /\ [][Next]_vars

\* The close handler run once more for a connection whose close handler has
\* already run (the client object and the closure state are as it left them)
CloseAgain(c) ==
  /\ ~crashed
  /\ conn[c] = "closed"
  /\ Step
  /\ last' = Msg("close_again", c)
  /\ queue' = IF hub = "matchmaking" THEN QueueAfterClose(queue, c) ELSE queue
  /\ removeClientFromGame(c, conn)
  /\ UNCHANGED << ws, browser, hub, crashed, conn, client, movers >>

NextReclose == Next \/ \E c \in Conns : CloseAgain(c)

SpecReclose == Init /\ [][NextReclose]_vars

\* The matchmaking hub with NQueuers connections that send only queue and
\* cancel_queue messages and disconnect
Queuers == 1..NQueuers

InitQueue ==
  /\ hub = "matchmaking"
  /\ crashed = FALSE
  /\ conn = [c \in Queuers |-> "new"]
  /\ steps = 0
  /\ client = [c \in Queuers |-> NewClient]
  /\ games = << >>
  /\ queue = << >>
  /\ movers = << >>
  /\ last = NoMsg
  /\ out = << >>
  /\ ws = NewService
  /\ browser = NewBrowser

NextQueue ==
  \/ \E c \in Queuers : Connect(c)
  \/ \E c \in Queuers, g \in IdPool, p \in Colors : QueueM(c, g, p)
  \/ \E c \in Queuers : CancelQueueM(c)
  \/ \E c \in Queuers : CloseM(c)

SpecQueue == InitQueue /\ [][NextQueue]_vars

\* The matchmaking hub when connections send only create and join messages
\* (the invitation-link flow) and none disconnects
NextLink ==
  \/ \E c \in Conns : hub = "matchmaking" /\ Connect(c)
  \/ \E c \in Conns, g \in IdPool : CreateM(c, g)
  \/ \E c \in Conns, g \in IdPool : JoinM(c, g)

SpecLink == InitMatch /\ [][NextLink]_vars

\* ------------------------------------------ src/app/services/websocket.ts
\* The singleton WebSocketService of one browser tab, driven by the hook
\* useChessWebSocket, the WebSocket objects' events and the reconnect timers
maxReconnectAttempts == 5
GlobalKey == "__global__"
\* the onMessage callbacks of the pages: queue.tsx passes no autoJoinGameId,
\* ChessGame.tsx passes the game id of its route
Listeners == {"Queue", "ChessGame"}
AutoJoinIds(listener) == IF listener = "Queue" THEN {Undef} ELSE IdPool
\* what the hub sends: events with a gameId field and events without one
ServerMessages ==
  {[type |-> t, gameId |-> g] : t \in {"matched", "move"}, g \in IdPool}
    \cup {[type |-> t, gameId |-> Undef] : t \in {"queue_status", "error"}}

hubVars == << hub, crashed, conn, client, games, queue, movers, steps, last, out >>

\* setState: the listeners of the state are React setters and hold no state
\* of the service
setState(service, newState) == [service EXCEPT !.state = newState]

\* connect()
connect(service, b) ==
  IF service.socket # NoSocket
    THEN [service |-> service, browser |-> b]
    ELSE [service |-> [setState(service, "connecting") EXCEPT
                         !.socket = Len(b.sockets) + 1],
          browser |-> [b EXCEPT !.sockets = Append(@, "connecting")]]

ReconnectAlways(attempts) == TRUE

\* attemptReconnect: the guard reconnectAttempts >= maxReconnectAttempts
ReconnectAllowed(attempts) == attempts < maxReconnectAttempts

\* attemptReconnect()
attemptReconnect(service, b) ==
  IF ~ReconnectAllowed(service.reconnectAttempts)
    THEN [service |-> service, browser |-> b]
    ELSE [service |-> [service EXCEPT !.reconnectAttempts = @ + 1],
          browser |-> [b EXCEPT !.timers = @ + 1]]

\* useEffect(() => wsService.current.connect(), []): a page mounts
ConnectCall ==
  /\ hub = "client"
  /\ Len(browser.sockets) < MaxSockets
  /\ LET r == connect(ws, browser) IN
     ws' = r.service /\ browser' = r.browser
  /\ UNCHANGED hubVars

\* setTimeout(() => this.connect(), delay) runs
TimerFires ==
  /\ hub = "client"
  /\ browser.timers > 0
  /\ Len(browser.sockets) < MaxSockets
  /\ LET r == connect(ws, [browser EXCEPT !.timers = @ - 1]) IN
     ws' = r.service /\ browser' = r.browser
  /\ UNCHANGED hubVars

\* socket.onopen of the s-th WebSocket object
SocketOpen(s) ==
  /\ hub = "client"
  /\ s \in DOMAIN browser.sockets
  /\ browser.sockets[s] = "connecting"
  /\ ws' = setState([ws EXCEPT !.reconnectAttempts = 0], "open")
  /\ browser' = [browser EXCEPT !.sockets[s] = "open", !.closes = 0]
  /\ UNCHANGED hubVars

\* socket.onerror
SocketError(s) ==
  /\ hub = "client"
  /\ s \in DOMAIN browser.sockets
  /\ browser.sockets[s] # "closed"
  /\ ws' = setState(ws, "closed")
  /\ UNCHANGED << browser, hubVars >>

\* socket.onclose
SocketClose(s) ==
  /\ hub = "client"
  /\ s \in DOMAIN browser.sockets
  /\ browser.sockets[s] # "closed"
  /\ LET r == attemptReconnect(
                setState([ws EXCEPT !.socket = NoSocket], "closed"),
                [browser EXCEPT !.sockets[s] = "closed", !.closes = @ + 1])
     IN ws' = r.service /\ browser' = r.browser
  /\ UNCHANGED hubVars

\* routeMessage: the listeners the message is handed to
routeMessage(service, message) ==
  LET key == IF message.gameId # Undef THEN message.gameId ELSE GlobalKey
  IN {pair[2] : pair \in {q \in service.messageListeners : q[1] = key}}

\* socket.onmessage
SocketMessage(s, message) ==
  /\ hub = "client"
  /\ s \in DOMAIN browser.sockets
  /\ browser.sockets[s] = "open"
  /\ browser' = [browser EXCEPT !.message = message,
                                 !.invoked = routeMessage(ws, message)]
  /\ UNCHANGED << ws, hubVars >>

\* the hook's subscription effect: key = autoJoinGameId || "__global__"
SubscriptionKey(autoJoinGameId) ==
  IF autoJoinGameId # Undef THEN autoJoinGameId ELSE GlobalKey

\* subscribe(key, onMessage) when a page mounts
Subscribe(listener, autoJoinGameId) ==
  /\ hub = "client"
  /\ ws' = [ws EXCEPT !.messageListeners =
                        @ \cup {<< SubscriptionKey(autoJoinGameId), listener >>}]
  /\ UNCHANGED << browser, hubVars >>

\* unsubscribe(key, onMessage) when it unmounts
Unsubscribe(listener, autoJoinGameId) ==
  /\ hub = "client"
  /\ << SubscriptionKey(autoJoinGameId), listener >> \in ws.messageListeners
  /\ ws' = [ws EXCEPT !.messageListeners =
                        @ \ {<< SubscriptionKey(autoJoinGameId), listener >>}]
  /\ UNCHANGED << browser, hubVars >>

InitClient == hub = "client" /\ InitCommon

NextClient ==
  \/ ConnectCall
  \/ TimerFires
  \/ \E s \in 1..MaxSockets : SocketOpen(s)
  \/ \E s \in 1..MaxSockets : SocketError(s)
  \/ \E s \in 1..MaxSockets : SocketClose(s)
  \/ \E s \in 1..MaxSockets, m \in ServerMessages : SocketMessage(s, m)
  \/ \E l \in Listeners : \E g \in AutoJoinIds(l) : Subscribe(l, g)
  \/ \E l \in Listeners : \E g \in AutoJoinIds(l) : Unsubscribe(l, g)

SpecClient == InitClient /\ [][NextClient]_vars

\* ===================================================================
\* Properties
\* ===================================================================
Holds(c, r, color) == r \in DOMAIN games /\ games[r].players[color].id = c
Seated(c, r) == \E color \in Colors : Holds(c, r, color)
Watches(c, r) == r \in DOMAIN games /\ c \in Range(games[r].watchers)
ErrorTo(c, message) == << [to |-> c, ev |-> ErrorEv(message)] >>
SideToMove(r) == getActiveColorFromFEN(games[r].fen)
SameBoard(r) ==
  /\ r \in DOMAIN games'
  /\ games'[r].fen = games[r].fen
  /\ games'[r].moves = games[r].moves

\* x holds the white seat of r, another connection holds the black seat, and
\* the last move accepted in r was x's, as the white seat, leaving black to move
WhiteJustMoved(r, x) ==
  /\ r \in DOMAIN games
  /\ games[r].players.white.id = x
  /\ games[r].players.black.id \notin {NoConn, x}
  /\ movers[r] # << >>
  /\ movers[r][Len(movers[r])] = [id |-> x, color |-> "white", seat |-> TRUE]
  /\ SideToMove(r) = "black"

\* C1 (direct-join hub): in a room with two distinct seat holders, after the
\* white seat's move was accepted with black to move and no move was accepted
\* since, every move message of the white connection is answered with the
\* error 'Not your turn' and leaves the room's position and move log unchanged.
C1_WhiteMovesAgain ==
  [][\A r \in IdPool, x \in Conns :
       (WhiteJustMoved(r, x) /\ \E g \in IdPool, f \in MoveFens : MoveD(x, g, f))
         => (out' = ErrorTo(x, "Not your turn") /\ SameBoard(r))]_vars

\* the room the handlers use for a message of c: the one client.gameId names
RoomOf(c) == client[c].gameId
SeatedInOwnRoom(c) == RoomOf(c) # Undef /\ Seated(c, RoomOf(c))
MoveMsg(c, g, f) == MoveD(c, g, f) \/ MoveM(c, g, f)
EndMsg(c, res) == EndD(c, res) \/ EndM(c, res)
WithFen == MoveFens \ {NoFen}

\* the move of c carrying position f is accepted in room r
AcceptedIn(r, f) ==
  /\ r \in DOMAIN games
  /\ r \in DOMAIN games'
  /\ games'[r].fen = f
  /\ games'[r].moves = Append(games[r].moves, [FEN |-> f])

\* c holds, in the room it is attached to, the seat of the side to move
HoldsSeatToMove(c) ==
  /\ RoomOf(c) \in DOMAIN games
  /\ Holds(c, RoomOf(c), SideToMove(RoomOf(c)))

\* C2 (direct-join hub): a move message that carries a position is accepted
\* (position replaced, record appended) if and only if the sender holds, in
\* its current room, the seat of the side to move derived from the room's
\* position; in every other case no room's position changes.
C2_AcceptedIffSeatToMove ==
  [][\A c \in Conns, g \in IdPool, f \in WithFen :
       MoveD(c, g, f) =>
         /\ AcceptedIn(RoomOf(c), f) <=> HoldsSeatToMove(c)
         /\ ~HoldsSeatToMove(c) =>
              \A r \in DOMAIN games : games'[r].fen = games[r].fen]_vars

\* the seat object the queue handler builds has no viewer field; every seat
\* the join handler writes has viewer false
PairedSeat(c, r, color) ==
  Holds(c, r, color) /\ games[r].players[color].viewer = Undef

\* C3 (matchmaking hub): a connection that holds a seat because it was paired
\* has its move accepted whenever the side to move of that room is its seat
\* colour and the move carries a position.
C3_PairedPlayerMoves ==
  [][\A c \in Conns, g \in IdPool, f \in WithFen, r \in IdPool,
        color \in Colors :
       (MoveM(c, g, f) /\ PairedSeat(c, r, color) /\ SideToMove(r) = color)
         => AcceptedIn(r, f)]_vars

\* the step keeps room r: it is not a pairing that stores a new room under r
Kept(r) ==
  /\ r \in DOMAIN games
  /\ r \in DOMAIN games'
  /\ ~(last'.op = "queue" /\ games'[r] # games[r])

\* C4 (both hubs): once a room's status is ended, no message and no
\* disconnect changes it back to waiting or active.
C4_EndedIsAbsorbing ==
  [][\A r \in IdPool :
       (Kept(r) /\ games[r].status = "ended") => games'[r].status = "ended"]_vars

IsErrorTo(c) ==
  Len(out') = 1 /\ out'[1].to = c /\ out'[1].ev.type = "error"

\* C5 (both hubs): while a room's status is ended no move message is accepted
\* for it: its position and move log do not change, and a move message of a
\* connection attached to it is answered with an error.
C5_NoMoveAfterEnded ==
  [][\A r \in IdPool :
       (Kept(r) /\ games[r].status = "ended") =>
         /\ SameBoard(r)
         /\ \A c \in Conns, g \in IdPool, f \in MoveFens :
              (MoveMsg(c, g, f) /\ RoomOf(c) = r) => IsErrorTo(c)]_vars

\* C6 (both hubs): a move message from a connection that holds no seat in its
\* room (an observer, or a connection in no room) is answered with an error
\* sent to that connection only, and no position or move log changes.
C6_MoveWithoutSeat ==
  [][\A c \in Conns, g \in IdPool, f \in MoveFens :
       (MoveMsg(c, g, f) /\ ~SeatedInOwnRoom(c))
         => (IsErrorTo(c) /\ games' = games)]_vars

EndedTo(r, res) ==
  {i \in 1..Len(out') : out'[i].ev.type = "ended" /\ out'[i].ev.gameId = r}

\* C7 (both hubs): an end message from a connection that holds no seat is
\* answered with an error and changes no room; a room's status becomes ended
\* only by the end message of a connection seated in it, which stores the
\* result and sends every open member an ended event with the result and the
\* final position.
C7_EndNeedsSeat ==
  [][/\ \A c \in Conns, res \in Results :
          (EndMsg(c, res) /\ ~SeatedInOwnRoom(c))
            => (IsErrorTo(c) /\ games' = games)
     /\ \A r \in IdPool :
          (Kept(r) /\ games[r].status # "ended" /\ games'[r].status = "ended")
            => \E c \in Conns, res \in Results :
                 /\ EndMsg(c, res)
                 /\ Seated(c, r)
                 /\ games'[r].result = res
                 /\ out' = broadcast(conn, games'[r],
                                     EndedEv(games[r], res), NoConn)]_vars

\* C8 (both hubs): a room's result is unset while the room has not ended, and
\* once a result is stored no later message changes it or produces another
\* ended event for the room.
C8_ResultOnce ==
  [][\A r \in IdPool :
       /\ (r \in DOMAIN games' /\ games'[r].status # "ended")
            => games'[r].result = Undef
       /\ (Kept(r) /\ games[r].result # Undef)
            => (games'[r].result = games[r].result /\ EndedTo(r, Undef) = {})]_vars

\* C9 (both hubs): once the close handler of a connection has run, no room
\* has a seat held by it and no room's observer set contains its socket.
C9_ClosedHoldsNothing ==
  \A c \in Conns : conn[c] = "closed" =>
    \A r \in DOMAIN games : ~Seated(c, r) /\ ~Watches(c, r)

\* C10 (matchmaking hub): once a connection has closed, the queue has no entry
\* of it, so whoever is paired by a later queue message is paired with an
\* open connection.
C10_NoClosedInQueue ==
  [][/\ \A c \in Conns : conn'[c] = "closed" => FindIndex(queue', c) = 0
     /\ \A c \in Conns, g \in IdPool, p \in Colors, color \in Colors :
          (QueueM(c, g, p) /\ Len(queue) >= 1)
            => conn[games'[g].players[color].id] = "open"]_vars

\* a connection queued, closed before anyone else queued (no room was ever
\* made), and a connection that queued afterwards waits alone
C10_Witness ==
  \E c, d \in Conns :
    /\ c # d
    /\ hub = "matchmaking"
    /\ conn[c] = "closed"
    /\ client[c].inQueue
    /\ games = << >>
    /\ Len(queue) = 1
    /\ queue[1].clientId = d

\* no seat keeps the tempSlot flag after a handler has returned
SeatsHaveNoTempSlot ==
  \A r \in DOMAIN games, color \in Colors : ~games[r].players[color].tempSlot

\* ------------------------------------------------------------------- C11
\* the events of the last step that have the given type
EventsOf(type) == {i \in 1..Len(out') : out'[i].ev.type = type}
\* the step made a pair: the sender of a queue message is open and is one of
\* the two, so a matched event was written
Pairing == EventsOf("matched") # {}
\* up to and including this step every message was a queue message of a
\* connection that had not queued before (each sets one inQueue flag, anything
\* else sets none)
OnlyFirstQueues ==
  Cardinality({c \in DOMAIN client : client'[c].inQueue}) = steps'
SortedByArrival(q) ==
  \A i, j \in 1..Len(q) : i < j => q[i].timestamp < q[j].timestamp

\* C11 (matchmaking hub): the queue holds its entries in arrival order, and a
\* step that makes a pair takes, of the entries then waiting (the sender's new
\* one included), the two that arrived first: the older one as player 1, the
\* next as player 2, every entry left in the queue having arrived later.
\* When only queue messages of distinct connections have arrived, the pair is
\* the (2k-1)th with the (2k)th arrival: A with B, and C with D.
C11_FifoPairing ==
  [][/\ SortedByArrival(queue')
     /\ \A c \in Queuers, g \in IdPool, p \in Colors :
          (QueueM(c, g, p) /\ Pairing) =>
            LET waiting == Range(queue) \cup {QueueEntry(c, steps')} IN
            \E a, b \in waiting :
              /\ a.timestamp < b.timestamp
              /\ \A e \in waiting \ {a, b} : b.timestamp < e.timestamp
              /\ Range(queue') = waiting \ {a, b}
              /\ games'[g].players[p].id = a.clientId
              /\ games'[g].players[Other(p)].id = b.clientId
              /\ OnlyFirstQueues =>
                   /\ a.clientId # b.clientId
                   /\ a.timestamp % 2 = 1
                   /\ b.timestamp = a.timestamp + 1]_vars

\* four distinct connections have queued and nothing else was sent: the last
\* step paired the third arrival with the fourth
C11_Witness ==
  /\ steps = 4
  /\ Cardinality({c \in DOMAIN client : client[c].inQueue}) = 4
  /\ queue = << >>
  /\ Cardinality({i \in 1..Len(out) : out[i].ev.type = "matched"}) = 2

\* ------------------------------------------------------------------- C12
\* the connections a matched event of the last step was written to
MatchedTo == {out'[i].to : i \in EventsOf("matched")}
MatchedEvents(x) == {i \in EventsOf("matched") : out'[i].to = x}

NotWaiting(q, c) == FindIndex(q, c) = 0
\* the rooms the last step stored or changed
Touched == {r \in DOMAIN games' : r \notin DOMAIN games \/ games'[r] # games[r]}

\* C13 (matchmaking hub): after its cancel_queue a connection has no queue
\* entry; a connection without an entry gets one only by its own queue
\* message; and a queue message of another connection neither sends a
\* connection without an entry a matched event nor seats it.  A cancel_queue
\* of a connection without an entry leaves the queue as it was and is answered
\* with queue_cancelled, not with an error.
C13_CancelledNotPaired ==
  [][\A c \in Conns :
       /\ CancelQueueM(c) => NotWaiting(queue', c)
       /\ (NotWaiting(queue, c) /\ ~NotWaiting(queue', c))
            => \E g \in IdPool, p \in Colors : QueueM(c, g, p)
       /\ \A d \in Conns \ {c}, g \in IdPool, p \in Colors :
            (QueueM(d, g, p) /\ NotWaiting(queue, c)) =>
              /\ c \notin MatchedTo
              /\ \A r \in Touched, color \in Colors :
                   games'[r].players[color].id # c
       /\ (CancelQueueM(c) /\ NotWaiting(queue, c)) =>
            /\ queue' = queue
            /\ EventsOf("error") = {}
            /\ out' = << [to |-> c, ev |-> [type |-> "queue_cancelled"]] >>]_vars

\* a connection without a queue entry has just sent cancel_queue while
\* another connection waits in the queue
C13_Witness ==
  \E c \in Conns :
    /\ hub = "matchmaking"
    /\ last = Msg("cancel_queue", c)
    /\ Len(queue) = 1
    /\ queue[1].clientId # c
    /\ out = << [to |-> c, ev |-> [type |-> "queue_cancelled"]] >>

\* ------------------------------------------------------------------- C14
\* C14 (direct-join hub): when only create and join messages are sent and
\* nobody disconnects, every room's status is active if both seats are
\* occupied and waiting if not.
C14_StatusFollowsSeats ==
  \A r \in DOMAIN games :
    games[r].status =
      (IF Occupied(games[r], "white") /\ Occupied(games[r], "black")
         THEN "active" ELSE "waiting")

\* a created room was joined until it was full, and then once more: it is
\* active with both seats taken and an observer
C14_Witness ==
  \E r \in DOMAIN games :
    /\ hub = "direct"
    /\ last.op = "join"
    /\ games[r].status = "active"
    /\ games[r].watchers # << >>
    /\ \E r2 \in DOMAIN games : games[r2].status = "waiting"

\* ------------------------------------------------------------------- C15
EntriesFor(list, r) == {i \in 1..Len(list) : list[i].id = r}

\* C15 (matchmaking hub): every games_list event (the answer to list_games
\* and the broadcast after a pairing) has exactly one entry for each room
\* whose status is active and none for any other room or for an id that is
\* no room; an entry's watcherCount is the size of the room's observer set
\* and its moveCount the length of the room's move log.
C15_GamesListIsActiveRooms ==
  [][\A i \in EventsOf("games_list") :
       LET list == out'[i].ev.games IN
       /\ \A k \in 1..Len(list) : list[k].id \in DOMAIN games'
       /\ \A r \in DOMAIN games' :
            IF games'[r].status = "active"
              THEN /\ Cardinality(EntriesFor(list, r)) = 1
                   /\ \A k \in EntriesFor(list, r) :
                        /\ list[k].watcherCount
                             = Cardinality(Range(games'[r].watchers))
                        /\ list[k].moveCount = Len(games'[r].moves)
              ELSE EntriesFor(list, r) = {}]_vars

\* list_games was answered while one room was active with an observer and
\* another room was not active
C15_Witness ==
  /\ last.op = "list_games"
  /\ Len(out) = 1
  /\ out[1].ev.type = "games_list"
  /\ Len(out[1].ev.games) = 1
  /\ out[1].ev.games[1].watcherCount = 1
  /\ Cardinality(DOMAIN games) = 2

\* ------------------------------------------------------------------- C16
\* C16 (matchmaking hub): the step that pairs two distinct connections sends
\* every connection whose socket is open a games_list with an entry for the
\* room named in the matched events; and a list_games message is answered with
\* one games_list event, sent to its sender only, that has an entry for every
\* room whose status is active at that time.
C16_NewRoomIsListed ==
  [][/\ \A c \in Conns, g \in IdPool, p \in Colors :
          (QueueM(c, g, p) /\ Cardinality(MatchedTo) = 2) =>
            \A j \in EventsOf("matched"), x \in Conns :
              conn[x] = "open" =>
                \E i \in EventsOf("games_list") :
                  /\ out'[i].to = x
                  /\ EntriesFor(out'[i].ev.games, out'[j].ev.gameId) # {}
     /\ \A c \in Conns :
          ListGamesM(c) =>
            /\ Len(out') = 1
            /\ out'[1].to = c
            /\ out'[1].ev.type = "games_list"
            /\ \A r \in DOMAIN games :
                 games[r].status = "active"
                   => EntriesFor(out'[1].ev.games, r) # {}]_vars

\* two connections were paired into a room and a third connection's
\* list_games was answered with a list that has the room
C16_Witness ==
  \E c \in Conns, r \in DOMAIN games :
    /\ last = Msg("list_games", c)
    /\ Len(out) = 1
    /\ out[1].to = c
    /\ EntriesFor(out[1].ev.games, r) # {}
    /\ PairedSeat(games[r].players.white.id, r, "white")
    /\ PairedSeat(games[r].players.black.id, r, "black")
    /\ games[r].players.white.id # games[r].players.black.id
    /\ c \notin {games[r].players.white.id, games[r].players.black.id}

\* ------------------------------------------------------------------- C17
\* C17 (both hubs): a step that writes an error event writes nothing else,
\* writes it to the sender of the message, and leaves every room, the queue
\* and every connection's attributes as they were.
C17_ErrorChangesNothing ==
  [][EventsOf("error") # {} =>
       /\ Len(out') = 1
       /\ out'[1].to = last'.by
       /\ games' = games
       /\ queue' = queue
       /\ client' = client
       /\ conn' = conn
       /\ crashed' = crashed]_vars

\* a connection attached to a room with another member was answered
\* 'Not your turn'
C17_Witness ==
  \E c \in Conns :
    /\ last = Msg("move", c)
    /\ out = << [to |-> c, ev |-> ErrorEv("Not your turn")] >>
    /\ client[c].gameId \in DOMAIN games
    /\ \E d \in Conns \ {c} :
         conn[d] = "open" /\ Seated(d, client[c].gameId)

\* ------------------------------------------------------------------- C18
\* payloads that are not JSON, JSON values without a recognised type, and
\* the JSON value null
MalformedMsg(c) ==
  \/ BadJsonD(c) \/ BadJsonM(c)
  \/ UnknownTypeD(c) \/ UnknownTypeM(c)
  \/ NullPayloadD(c) \/ NullPayloadM(c)

\* C18 (both hubs): a payload that is not JSON, or is JSON (null included)
\* without a recognised type, is answered with exactly one error event sent to
\* its sender; the handler returns normally, the connection stays open with
\* its attributes, and the server goes on handling messages.
C18_MalformedGetsError ==
  [][\A c \in Conns :
       MalformedMsg(c) =>
         /\ Len(out') = 1
         /\ out'[1].to = c
         /\ out'[1].ev.type = "error"
         /\ conn'[c] = "open"
         /\ client' = client
         /\ ~crashed']_vars

\* ------------------------------------------------------------------- C19
SameMembers(r) ==
  /\ games'[r].players = games[r].players
  /\ games'[r].watchers = games[r].watchers
  /\ games'[r].status = games[r].status

\* C19 (both hubs): running the close handler again for a connection whose
\* close handler has already run changes no room's seats, observers or status
\* and writes no player_left event.
C19_CloseIsIdempotent ==
  [][\A c \in Conns :
       CloseAgain(c) =>
         /\ DOMAIN games' = DOMAIN games
         /\ \A r \in DOMAIN games : SameMembers(r)
         /\ EventsOf("player_left") = {}]_vars

\* ------------------------------------------------------------------- C20
Members(game) ==
  ({game.players.white.id, game.players.black.id} \ {NoConn})
    \cup Range(game.watchers)
Recipients(events) == {events[i].to : i \in 1..Len(events)}
Probe == [type |-> "probe"]

\* C20 (both hubs): for every room and every excluded socket (or none),
\* broadcast writes the payload, and only it, to the sockets of the room's
\* seat holders and observers that are open and are not the excluded one, and
\* to no other socket.
C20_BroadcastRecipients ==
  \A r \in DOMAIN games, exclude \in Conns \cup {NoConn} :
    LET sent == broadcast(conn, games[r], Probe, exclude) IN
    /\ Recipients(sent)
         = {x \in Members(games[r]) \ {exclude} : conn[x] = "open"}
    /\ \A i \in 1..Len(sent) : sent[i].ev = Probe

\* an end message was broadcast in a room one of whose seat holders has
\* closed: the event went to the open members only
C20_Witness ==
  \E r \in DOMAIN games, x \in Conns :
    /\ last.op = "end"
    /\ games[r].status = "ended"
    /\ Seated(x, r)
    /\ conn[x] = "closed"
    /\ out # << >>
    /\ out = broadcast(conn, games[r], EndedEv(games[r], games[r].result),
                       NoConn)
    /\ x \notin Recipients(out)

\* ------------------------------------------------------------------- C21
\* C21 (both hubs): for every room and every excluded socket (or none), one
\* call of broadcast writes the payload to no socket more than once.
C21_BroadcastAtMostOnce ==
  \A r \in DOMAIN games, exclude \in Conns \cup {NoConn} :
    LET sent == broadcast(conn, games[r], Probe, exclude) IN
    Len(sent) = Cardinality(Recipients(sent))

\* ------------------------------------------------------------------- C22
BroadcastTypes == {"move", "ended", "player_joined", "player_left"}
\* the broadcast events of room r written in the last step
RoomEvents(r) ==
  {out'[i].ev : i \in {k \in 1..Len(out') :
                          /\ out'[k].ev.type \in BroadcastTypes
                          /\ out'[k].ev.gameId = r}}
Receives(x, e) == \E i \in 1..Len(out') : out'[i] = [to |-> x, ev |-> e]
\* e1 is written to the socket of x before e2 is
Precedes(x, e1, e2) ==
  \E i, j \in 1..Len(out') :
    /\ i < j
    /\ out'[i] = [to |-> x, ev |-> e1]
    /\ out'[j] = [to |-> x, ev |-> e2]

EventsTo(x) == {i \in 1..Len(out') : out'[i].to = x}
OpenMembers(game) == {x \in Members(game) : conn[x] = "open"}

\* C23 (both hubs): a move message that is accepted makes the submitted
\* position the position of the sender's room, appends the submitted move as
\* one record to the room's move log and changes nothing else of any room;
\* what is written in that step is one move event to each open seat holder
\* and observer of the room, the sender among them, with the new position,
\* the side to move derived from it as nextToMove and the sender's colour as
\* by.
C23_AcceptedMove ==
  [][\A c \in Conns, g \in IdPool, f \in MoveFens :
       (MoveMsg(c, g, f) /\ games' # games) =>
         LET r == RoomOf(c) IN
         /\ games' = [games EXCEPT
                        ![r].fen = f,
                        ![r].moves = Append(games[r].moves, [FEN |-> f])]
         /\ \A i \in 1..Len(out') :
              out'[i].ev = [type |-> "move", gameId |-> r,
                            move |-> [FEN |-> f], fen |-> f,
                            nextToMove |-> getActiveColorFromFEN(f),
                            by |-> client[c].color]
         /\ Recipients(out') = OpenMembers(games[r])
         /\ c \in Recipients(out')
         /\ \A x \in OpenMembers(games[r]) : Cardinality(EventsTo(x)) = 1]_vars

\* ------------------------------------------------------------------- C24
\* C24 (both hubs): a room's position is the position carried by the last
\* record of its move log, and the initial position while the log is empty.
C24_FenIsLastRecord ==
  \A r \in DOMAIN games :
    games[r].fen =
      (IF games[r].moves = << >> THEN START_FEN
       ELSE games[r].moves[Len(games[r].moves)].FEN)

\* two moves were accepted in a room, the second carrying another position
\* than the first
C24_Witness ==
  \E r \in DOMAIN games :
    /\ Len(games[r].moves) = 2
    /\ games[r].moves[1].FEN # games[r].moves[2].FEN
    /\ games[r].fen = games[r].moves[2].FEN

\* ------------------------------------------------------------------- C25
\* C25 (direct-join hub): a join of an existing room puts the joiner in the
\* seat of its preferred colour (white without a preference) when that seat
\* is empty, else in the other seat when that one is empty, and in both
\* cases leaves the remaining seat and the observer set as they were; when
\* both seats are occupied the joiner is added to the observers and both
\* seats and the status stay as they were.  The observer set changes only
\* when both seats were occupied.
C25_JoinSeatPolicy ==
  [][\A c \in Conns, g \in IdPool, p \in Prefs :
       (JoinD(c, g, p) /\ g \in DOMAIN games) =>
         LET want == IF p = Undef THEN "white" ELSE p
             old == games[g]
             new == games'[g]
         IN
         /\ ~Occupied(old, want) =>
              /\ new.players[want].id = c
              /\ new.players[Other(want)] = old.players[Other(want)]
              /\ new.watchers = old.watchers
         /\ (Occupied(old, want) /\ ~Occupied(old, Other(want))) =>
              /\ new.players[Other(want)].id = c
              /\ new.players[want] = old.players[want]
              /\ new.watchers = old.watchers
         /\ (Occupied(old, "white") /\ Occupied(old, "black")) =>
              /\ new.players = old.players
              /\ new.status = old.status
              /\ c \in Range(new.watchers)
              /\ client'[c].viewer = "true"
         /\ new.watchers # old.watchers =>
              (Occupied(old, "white") /\ Occupied(old, "black"))]_vars

\* a third connection has just joined a room whose seats two others hold,
\* and watches it
C25_Witness ==
  \E r \in DOMAIN games :
    /\ last.op = "join"
    /\ Watches(last.by, r)
    /\ ~Seated(last.by, r)
    /\ Occupied(games[r], "white")
    /\ Occupied(games[r], "black")
    /\ games[r].players.white.id # games[r].players.black.id

\* ------------------------------------------------------------------- C26
JoinMsg(c, g) == (\E p \in Prefs : JoinD(c, g, p)) \/ JoinM(c, g)

C27_CreateMakesWaitingRoom ==
  [][\A c \in Conns, g \in IdPool, p \in Prefs :
       (CreateD(c, g, p) /\ g \notin DOMAIN games) =>
         LET want == IF p = "black" THEN "black" ELSE "white" IN
         /\ DOMAIN games' = DOMAIN games \cup {g}
         /\ \A r \in DOMAIN games : games'[r] = games[r]
         /\ games'[g].id = g
         /\ games'[g].status = "waiting"
         /\ games'[g].fen = START_FEN
         /\ games'[g].moves = << >>
         /\ games'[g].watchers = << >>
         /\ games'[g].players[want].id = c
         /\ ~Occupied(games'[g], Other(want))
         /\ Len(out') = 1
         /\ out'[1].to = c
         /\ out'[1].ev.type = "session"
         /\ out'[1].ev.gameId = g
         /\ out'[1].ev.color = want
         /\ out'[1].ev.status = "waiting"]_vars

\* a second room has just been created, with its creator in the black seat
C27_Witness ==
  \E r \in DOMAIN games :
    /\ last.op = "create"
    /\ Cardinality(DOMAIN games) = 2
    /\ games[r].players.black.id = last.by
    /\ ~Occupied(games[r], "white")
    /\ games[r].status = "waiting"
    /\ Len(out) = 1
    /\ out[1].ev.type = "session"
    /\ out[1].ev.gameId = r
    /\ out[1].ev.color = "black"

\* ------------------------------------------------------------------- C28
\* C28 (direct-join hub): a create naming the identifier of a room that
\* exists writes one event, the error 'Game already exists' to the sender,
\* and leaves every room, the set of rooms and the sender's room reference
\* and colour as they were.
C28_DuplicateCreateRejected ==
  [][\A c \in Conns, g \in IdPool, p \in Prefs :
       (CreateD(c, g, p) /\ g \in DOMAIN games) =>
         /\ out' = ErrorTo(c, "Game already exists")
         /\ games' = games
         /\ client'[c].gameId = client[c].gameId
         /\ client'[c].color = client[c].color]_vars

\* a connection attached to one room has just been refused the creation of a
\* room under the identifier of another room, in which a move has been made
C28_Witness ==
  \E r \in DOMAIN games :
    /\ last.op = "create"
    /\ out = ErrorTo(last.by, "Game already exists")
    /\ RoomOf(last.by) \in DOMAIN games \ {r}
    /\ games[r].moves # << >>

\* ------------------------------------------------------------------- C29
\* C29 (both hubs): a room that is in the room store is still there after
\* every message and every disconnect, and a create message or a pairing
\* made by a queue message, which put a new room into the store, leave every
\* room that was there as it was.
C29_RoomsStay ==
  [][\A r \in DOMAIN games :
       /\ r \in DOMAIN games'
       /\ last'.op \in {"create", "queue"} => games'[r] = games[r]]_vars

\* ------------------------------------------------------------------- C30
CloseMsg(c) == CloseD(c) \/ CloseM(c)
\* the members of a room whose socket is open after the step
StillOpen(game) == {x \in Members(game) : conn'[x] = "open"}

\* C30 (both hubs): when the connection that disconnects holds a seat of a
\* room that has not ended, that seat is empty afterwards, the room's other
\* seat, observers, position and move log are as before, its status is
\* waiting, and each member of the room that is still open is written
\* exactly one event, a player_left event with the seat summary and status
\* the room has afterwards.  When it only observes a room, nothing of that
\* room changes but the observer set, which loses it.
C30_DisconnectVacates ==
  [][\A c \in Conns : CloseMsg(c) =>
       \A r \in DOMAIN games :
         /\ \A k \in Colors :
              (Holds(c, r, k) /\ games[r].status # "ended") =>
                /\ ~Occupied(games'[r], k)
                /\ games'[r].players[Other(k)] = games[r].players[Other(k)]
                /\ games'[r].watchers = games[r].watchers
                /\ games'[r].fen = games[r].fen
                /\ games'[r].moves = games[r].moves
                /\ games'[r].status = "waiting"
                /\ \A x \in StillOpen(games'[r]) :
                     /\ Cardinality(EventsTo(x)) = 1
                     /\ \A i \in EventsTo(x) :
                          out'[i].ev = PlayerLeftEv(games'[r])
         /\ (Watches(c, r) /\ ~Seated(c, r)) =>
              games'[r] = [games[r] EXCEPT
                             !.watchers = SetDelete(games[r].watchers, c)]]_vars

\* ------------------------------------------------------------------- C31
\* The step, which handles a message of c on room r, changes no other room
\* and writes to connections other than c only if they are seat holders or
\* observers of r
OnlyRoom(r, c) ==
  /\ DOMAIN games' = DOMAIN games
  /\ \A q \in DOMAIN games \ {r} : games'[q] = games[q]
  /\ \A i \in 1..Len(out') :
       out'[i].to # c =>
         /\ r \in DOMAIN games
         /\ out'[i].to \in Members(games[r]) \cup Members(games'[r])

C32_LinkRoomBecomesActive ==
  [][\A c \in Conns, g \in IdPool :
       (/\ JoinM(c, g)
        /\ last.op = "create"
        /\ last.by # c
        /\ RoomOf(last.by) = g
        /\ g \in DOMAIN games
        /\ out # ErrorTo(last.by, "Game already exists")) =>
         /\ games'[g].status = "active"
         /\ {games'[g].players.white.id, games'[g].players.black.id}
              = {c, last.by}]_vars

\* with create and join messages alone every room keeps two empty seats and
\* the status waiting
LinkRoomsStayEmpty ==
  \A r \in DOMAIN games :
    /\ games[r].status = "waiting"
    /\ ~Occupied(games[r], "white")
    /\ ~Occupied(games[r], "black")

\* ------------------------------------------------------------------- C33
\* C33 (both hubs): when a move message is accepted, the side to move read
\* off the room's new position is the other colour than the sender's, and
\* afterwards no two consecutive records of the room's move log were
\* accepted from the same colour.
C33_SidesAlternate ==
  [][LET c == last'.by
         r == RoomOf(c)
     IN (last'.op = "move" /\ games' # games) =>
          /\ getActiveColorFromFEN(games'[r].fen) = Other(client[c].color)
          /\ \A i \in 1..(Len(movers'[r]) - 1) :
               movers'[r][i].color # movers'[r][i + 1].color]_vars

\* ------------------------------------------------------------------- C34
\* C34 (both hubs): a move message whose gameId field names another room
\* than the one its sender is attached to changes no room's position and no
\* room's move log.
C34_MoveNamesItsRoom ==
  [][last'.op = "move" =>
       \A g \in IdPool, f \in MoveFens :
         (MoveMsg(last'.by, g, f) /\ g # RoomOf(last'.by)) =>
           \A r \in DOMAIN games : SameBoard(r)]_vars

\* ------------------------------------------------------------------- C35
\* C35 (both hubs): whenever an open connection holds a seat of a room, its
\* room reference names that room and its colour attribute is the colour of
\* that seat (so that it holds no second seat anywhere).
C35_SeatMatchesClient ==
  \A r \in DOMAIN games, k \in Colors, x \in Conns :
    (Holds(x, r, k) /\ conn[x] = "open") =>
      (client[x].gameId = r /\ client[x].color = k)

\* ------------------------------------------------------------------- C36
\* C36 (both hubs): in every room the two seats, when both are occupied, are
\* held by different connections, and no connection is a seat holder and an
\* observer of the same room.
C36_MembersAreDistinct ==
  \A r \in DOMAIN games :
    /\ (Occupied(games[r], "white") /\ Occupied(games[r], "black")) =>
         games[r].players.white.id # games[r].players.black.id
    /\ \A x \in Conns : ~(Seated(x, r) /\ Watches(x, r))

\* ------------------------------------------------------------------- C37
\* C37 (both hubs): a move message changes neither the position nor the move
\* log of a room whose status is waiting.
C37_NoMoveWhileWaiting ==
  [][last'.op = "move" =>
       \A r \in DOMAIN games :
         games[r].status = "waiting" => SameBoard(r)]_vars

\* ------------------------------------------------------------------- C38
\* C38 (matchmaking hub): after every message and every disconnect the queue
\* holds at most one entry; and a queue message is answered with exactly one
\* queue_status event, whose position is the place, counted from 1, that the
\* sender's new entry has in the queue right after it was appended: 1 or 2.
C38_QueueAtMostOne ==
  [][/\ Len(queue') <= 1
     /\ last'.op = "queue" =>
          LET c == last'.by
              place == Len(queue) + 1
              replies == {i \in EventsTo(c) : out'[i].ev.type = "queue_status"}
          IN
          /\ Cardinality(replies) = 1
          /\ \A i \in replies :
               /\ out'[i].ev.position = place
               /\ out'[i].ev.position \in {1, 2}]_vars

\* a connection has just queued behind another one, was told position 2 and
\* was paired with it, which left the queue empty
C38_Witness ==
  /\ last.op = "queue"
  /\ queue = << >>
  /\ \E i \in 1..Len(out) :
       /\ out[i].to = last.by
       /\ out[i].ev.type = "queue_status"
       /\ out[i].ev.position = 2
  /\ \E r \in DOMAIN games :
       /\ games[r].players.white.id # games[r].players.black.id
       /\ Seated(last.by, r)

\* ------------------------------------------------------------------- C39
\* C39 (client service): when a matched message arrives while the queue
\* page's listener is subscribed under the key '__global__', the listener is
\* handed the message.
C39_MatchedReachesQueuePage ==
  [][\A s \in 1..MaxSockets, m \in ServerMessages :
       (/\ SocketMessage(s, m)
        /\ m.type = "matched"
        /\ << GlobalKey, "Queue" >> \in ws.messageListeners) =>
         "Queue" \in browser'.invoked]_vars

\* ------------------------------------------------------------------- C40
\* the WebSocket objects made by the service that are not closed
LiveSockets(b) == {s \in DOMAIN b.sockets : b.sockets[s] # "closed"}

\* C40 (client service): after every connect() call, socket event and
\* reconnect timer, at most one WebSocket object made by the service is not
\* closed, and it is the one the service holds; reconnectAttempts is at most
\* maxReconnectAttempts (5); an open event sets it to 0; and a close event
\* that follows five or more close events with no open event in between
\* schedules no reconnect timer.
C40_ReconnectIsBounded ==
  [][/\ Cardinality(LiveSockets(browser')) <= 1
     /\ LiveSockets(browser') \subseteq {ws'.socket}
     /\ ws'.reconnectAttempts \in 0..maxReconnectAttempts
     /\ \A s \in 1..MaxSockets :
          /\ SocketOpen(s) => ws'.reconnectAttempts = 0
          /\ (SocketClose(s) /\ browser.closes >= 5) =>
               browser'.timers = browser.timers]_vars

\* six sockets in a row were closed without any open event: five reconnect
\* timers were scheduled and have run, the sixth close scheduled none
C40_Witness ==
  /\ browser.closes = 6
  /\ Len(browser.sockets) = 6
  /\ browser.timers = 0
  /\ ws.reconnectAttempts = maxReconnectAttempts
  /\ ws.socket = NoSocket

====
